---- MODULE Spec2Model ----
(***************************************************************************)
(* A model of src/bot.py: the EMA(10) x EMA(20) crossover signal bot.     *)
(*                                                                         *)
(* Time is counted in ticks of half a second, the smallest delay the code  *)
(* programs (time.sleep(0.5), line 223); time.time() is the variable       *)
(* clock.  Prices and moving averages are exact rationals <<num, den>>.    *)
(***************************************************************************)
EXTENDS Integers, Sequences, FiniteSets, TLC

VARIABLES
    pc,                 \* where CryptoSignalBot.run / check_signals stands
    clock,              \* time.time(), in ticks
    cycle,              \* number of check_signals calls started so far
    last_signals,       \* self.last_signals: signal key -> time of admission
    top_coins,          \* check_signals' local list of symbols to scan
    idx,                \* position in top_coins of the next symbol to scan
    df,                 \* the frame the last fetch_ohlcv_data returned
    signals_found,      \* check_signals' local list of accepted signals
    sendIdx,            \* position in signals_found of the next one to send
    auth_retry_counter, \* run's local counter of completed cycles
    last_sleep,         \* argument of run's last time.sleep call, in ticks
    tickers,            \* get_top_coins_by_volume's local `tickers`, as
                        \* <<result>>, or <<>> outside that call's scope
    fetched,            \* this cycle's fetch_ohlcv_data calls: symbol, and
                        \* whether a frame came back
    attempts,           \* every crossover put to the duplicate check
    notified,           \* every signal handed to send_telegram_message
    send_failed,        \* whether the last requests.post failed
    auth_retries,       \* number of retry_delta_authentication calls so far
    timeframe,          \* self.timeframe, in seconds
    main,               \* the main thread: whether it still serves HTTP, and
                        \* how many requests it has answered
    rank_call,          \* a call of get_top_coins_by_volume on its own
    detect_call,        \* a call of the crossover comparison on its own
    ema_call            \* a call of calculate_ema on its own

botvars == <<pc, clock, cycle, last_signals, top_coins, idx, df,
             signals_found, sendIdx, auth_retry_counter, last_sleep, tickers,
             fetched, attempts, notified, send_failed, auth_retries>>

\* what no step of CryptoSignalBot.run changes
othervars == <<timeframe, main, rank_call, detect_call, ema_call>>

vars == <<botvars, othervars>>


-----------------------------------------------------------------------------
(* Bounds of the model.                                                    *)

\* check_signals is called at most this many times under Spec ...
MaxCycles == 2
\* ... and at most this many times under SpecCooldown
MaxCooldownCycles == 3
\* SpecRanker: a ticker snapshot has at most this many entries ...
MaxTickers == 4
\* ... and the limit asked for is at most this
MaxLimit == 3
\* SpecDetector: the EMA values are n/1 and n/2 for n up to this
MaxEma == 2
\* SpecShutdown: check_signals is called at most this many times ...
MaxShutdownCycles == 2
\* ... and the main thread answers at most this many HTTP requests
MaxRequests == 2
\* SpecLive: check_signals is called at most this many times
MaxLiveCycles == 2
\* SpecAuth: the market moves in this many cycles before the cycle at
\* which the re-authentication is due, and not at all before them
MaxAuthCycles == 2
\* SpecEma: a close column has at most this many rows, ...
MaxSeries == 3
\* ... its closes are at most this, ...
MaxClose == 2
\* ... and the period is at most this
MaxPeriod == 3

-----------------------------------------------------------------------------
(* Program constants.                                                      *)

TicksPerSecond == 2
CooldownSeconds == 7200
IntervalSeconds == 300
BackoffSeconds == 60
MinSamples == 25
FastPeriod == 10
SlowPeriod == 20
TopN == 5
AuthRetryInterval == 288
TimeframeSeconds == 3600

Cooldown == CooldownSeconds * TicksPerSecond
IntervalTicks == IntervalSeconds * TicksPerSecond
BackoffTicks == BackoffSeconds * TicksPerSecond
\* time.sleep(0.5)
PaceTicks == TicksPerSecond \div 2

FallbackCoins == <<"BTC/USDT", "ETH/USDT", "BNB/USDT", "SOL/USDT", "XRP/USDT">>

-----------------------------------------------------------------------------
(* Exact rationals <<num, den>>, den > 0, in lowest terms.                 *)

RECURSIVE Gcd(_, _)
Gcd(a, b) == IF b = 0 THEN a ELSE Gcd(b, a % b)

Abs(x) == IF x < 0 THEN -x ELSE x

Rat(n, d) ==
    LET g == Gcd(Abs(n), d) IN <<n \div g, d \div g>>

RatLt(x, y) == x[1] * y[2] < y[1] * x[2]
RatLe(x, y) == x[1] * y[2] <= y[1] * x[2]
RatGt(x, y) == RatLt(y, x)
RatGe(x, y) == RatLe(y, x)

-----------------------------------------------------------------------------
(* calculate_ema: data.ewm(span=period, adjust=False).mean(), that is      *)
(* y[1] = x[1], y[i] = a*x[i] + (1-a)*y[i-1] with a = 2/(period+1).        *)

\* EmaStep with a = 1/period
EmaStepWilder(x, prev, period) ==
    Rat(x * prev[2] + (period - 1) * prev[1], period * prev[2])

EmaStep(x, prev, period) ==
    Rat(2 * x * prev[2] + (period - 1) * prev[1], (period + 1) * prev[2])

RECURSIVE EmaUpTo(_, _, _)
EmaUpTo(data, period, n) ==
    IF n = 1 THEN << Rat(data[1], 1) >>
    ELSE LET before == EmaUpTo(data, period, n - 1)
         IN  Append(before, EmaStep(data[n], before[n - 1], period))

calculate_ema(data, period) ==
    IF data = <<>> THEN <<>> ELSE EmaUpTo(data, period, Len(data))

\* a 'close' column of n rows: flat at 10, then the last two closes a, b
Closes(n, a, b) ==
    [i \in 1..n |-> IF i = n THEN b ELSE IF i = n - 1 THEN a ELSE 10]

\* the 'close' columns the exchange returns in this model
MarketCloses ==
    {Closes(n, 10, b) : n \in {MinSamples - 1, MinSamples}, b \in {8, 10, 12}}

\* calculate_ema over those columns, computed once
EmaOf == [data \in MarketCloses |->
            [period \in {FastPeriod, SlowPeriod} |-> calculate_ema(data, period)]]

-----------------------------------------------------------------------------
(* detect_crossover.  A frame df is [ok, closes, numeric, ts_nat, ts]:     *)
(* ok = FALSE is Python's None (fetch_ohlcv_data caught an exception);     *)
(* closes is the 'close' column; numeric = FALSE is a column pandas cannot *)
(* average (ewm raises); ts_nat = TRUE is a last timestamp that is NaT.    *)

NoFrame == [ok |-> FALSE, closes |-> <<>>, numeric |-> TRUE,
            ts_nat |-> FALSE, ts |-> 0]

\* crossover_type with < and > for <= and >= on the previous row
crossover_type_strict(prev_10, prev_20, cur_10, cur_20) ==
    IF RatLt(prev_10, prev_20) /\ RatGt(cur_10, cur_20) THEN "BULLISH"
    ELSE IF RatGt(prev_10, prev_20) /\ RatLt(cur_10, cur_20) THEN "BEARISH"
    ELSE "NONE"

\* lines 154 and 165: the comparison of the last two rows
crossover_type(prev_10, prev_20, cur_10, cur_20) ==
    IF RatLe(prev_10, prev_20) /\ RatGt(cur_10, cur_20) THEN "BULLISH"
    ELSE IF RatGe(prev_10, prev_20) /\ RatLt(cur_10, cur_20) THEN "BEARISH"
    ELSE "NONE"

\* too_short with the bound one row too low
too_short_by_one(frame) == ~frame.ok \/ Len(frame.closes) < MinSamples - 1

\* line 140: the guard that returns None
too_short(frame) == ~frame.ok \/ Len(frame.closes) < MinSamples

\* whether detect_crossover raises (calculate_ema on a non-numeric column)
detect_raises(frame) == ~too_short(frame) /\ ~frame.numeric

\* lines 147-175: the signal for a frame whose columns ema_10 and ema_20
\* are given, as <<signal>>, or <<>> for None
crossover_signal(symbol, frame, ema_10, ema_20) ==
    LET n    == Len(frame.closes)
        type == crossover_type(ema_10[n - 1], ema_20[n - 1],
                               ema_10[n], ema_20[n])
    IN  IF type = "NONE" THEN <<>>
        ELSE << [type |-> type, symbol |-> symbol,
                 price |-> frame.closes[n],
                 ema_10 |-> ema_10[n], ema_20 |-> ema_20[n],
                 ts_nat |-> frame.ts_nat, timestamp |-> frame.ts] >>

\* lines 138-175: what detect_crossover returns
detect_crossover(symbol, frame) ==
    IF too_short(frame) THEN <<>>
    ELSE crossover_signal(symbol, frame, EmaOf[frame.closes][FastPeriod],
                          EmaOf[frame.closes][SlowPeriod])

\* line 213: f"{symbol}_{signal['type']}"
signal_key(signal) == <<signal.symbol, signal.type>>

\* line 188: signal['timestamp'].strftime raises on NaT
format_raises(signal) == signal.ts_nat

-----------------------------------------------------------------------------
(* get_top_coins_by_volume.  What fetch_tickers returned is [ok, items]:   *)
(* ok = FALSE is an exception; items is the dict in iteration order, each  *)
(* item [symbol, quoteVolume], the volume tagged "num" (a number),         *)
(* "absent" (no such key), "none" (None) or "str" (a non-numeric string).  *)

NoTickers == [ok |-> FALSE, items |-> <<>>]

\* the keys k with '/USDT' in k
SlashUSDT == {"BTC/USDT", "ETH/USDT", "BNB/USDT", "SOL/USDT", "XRP/USDT",
              "BTC/USDT:USDT", "A/USDT", "B/USDT", "D/USDT"}
\* the keys k with ':USDT' in k
ColonUSDT == {"BTC/USDT:USDT"}

usdt_pairs(items) ==
    SelectSeq(items, LAMBDA it : it.symbol \in SlashUSDT
                                 /\ it.symbol \notin ColonUSDT)

\* float(x[1].get('quoteVolume', 0)) raises TypeError or ValueError
float_raises(vol) == vol.tag \in {"none", "str"}
\* ... and otherwise is the number, 0 when the key is absent
float_value(vol) == IF vol.tag = "num" THEN vol.num ELSE 0

\* InsertDesc putting x before its equals
InsertDescBeforeEquals(sorted, x) ==
    LET k   == float_value(x.quoteVolume)
        pos == Cardinality({i \in 1..Len(sorted) :
                              float_value(sorted[i].quoteVolume) > k})
    IN  SubSeq(sorted, 1, pos) \o <<x>> \o SubSeq(sorted, pos + 1, Len(sorted))

\* x put into a list sorted by descending volume, after its equals
InsertDesc(sorted, x) ==
    LET k   == float_value(x.quoteVolume)
        pos == Cardinality({i \in 1..Len(sorted) :
                              float_value(sorted[i].quoteVolume) >= k})
    IN  SubSeq(sorted, 1, pos) \o <<x>> \o SubSeq(sorted, pos + 1, Len(sorted))

\* sorted(..., key=volume, reverse=True): stable
RECURSIVE SortedDesc(_)
SortedDesc(items) ==
    IF items = <<>> THEN <<>>
    ELSE InsertDesc(SortedDesc(SubSeq(items, 1, Len(items) - 1)),
                    items[Len(items)])

Min(a, b) == IF a < b THEN a ELSE b

\* sorted_pairs[:limit], the symbols of it
rank_by_volume(items, limit) ==
    LET sorted_pairs == SortedDesc(usdt_pairs(items))
    IN  [i \in 1..Min(limit, Len(sorted_pairs)) |-> sorted_pairs[i].symbol]

\* whether the try block of get_top_coins_by_volume raises
ranking_raises(res) ==
    \/ ~res.ok
    \/ \E i \in 1..Len(usdt_pairs(res.items)) :
           float_raises(usdt_pairs(res.items)[i].quoteVolume)

get_top_coins_by_volume(res, limit) ==
    IF ranking_raises(res) THEN FallbackCoins
    ELSE rank_by_volume(res.items, limit)

-----------------------------------------------------------------------------
(* The environment: what the exchange, the network and the host's clock    *)
(* can do.  Every set is small; each holds the cases the code branches on. *)

\* the open time of the candle that is current at time now
CandleTime(now) ==
    LET span == timeframe * TicksPerSecond IN (now \div span) * span

\* a frame of n rows whose last two closes are a, b, fetched at time 0
Frame(n, a, b) ==
    [ok |-> TRUE, closes |-> Closes(n, a, b), numeric |-> TRUE,
     ts_nat |-> FALSE, ts |-> 0]

Flat == Frame(MinSamples, 10, 10)
Rising == Frame(MinSamples, 10, 12)
Falling == Frame(MinSamples, 10, 8)
\* one row short of what detect_crossover asks for
ShortRising == Frame(MinSamples - 1, 10, 12)
\* a 'close' column that is not numeric
Malformed == [Rising EXCEPT !.numeric = FALSE]
\* a last row whose timestamp is missing
RisingNaT == [Rising EXCEPT !.ts_nat = TRUE]

Symbols == {FallbackCoins[i] : i \in 1..Len(FallbackCoins)}

\* what fetch_ohlcv_data can return, per symbol (NoFrame: the fetch failed)
FullMarket ==
    [s \in Symbols |->
        IF s = "BTC/USDT"
        THEN {NoFrame, ShortRising, Flat, Rising, RisingNaT, Falling}
        ELSE IF s = "ETH/USDT" THEN {Flat, Falling}
        ELSE IF s = "BNB/USDT" THEN {Flat, Malformed}
        ELSE {Flat}]

\* a market in which only BTC/USDT moves
CalmMarket ==
    [s \in Symbols |->
        IF s = "BTC/USDT" THEN {Flat, Rising, RisingNaT, Falling} ELSE {Flat}]

Vol(n) == [tag |-> "num", num |-> n]
NoVol(tag) == [tag |-> tag, num |-> 0]
Item(symbol, vol) == [symbol |-> symbol, quoteVolume |-> vol]

\* a ticker snapshot that ranks BTC/USDT before ETH/USDT
GoodTickers ==
    [ok |-> TRUE,
     items |-> << Item("ETH/BTC", Vol(7000)), Item("ETH/USDT", Vol(300)),
                  Item("BTC/USDT:USDT", Vol(5000)), Item("BTC/USDT", Vol(900)) >>]

\* the same snapshot with one quoteVolume of None
NoneVolumeTickers ==
    [GoodTickers EXCEPT !.items[2] = Item("ETH/USDT", NoVol("none"))]

\* what binance.fetch_tickers can return (NoTickers: it raised)
TickerResults == {NoTickers, GoodTickers, NoneVolumeTickers}

\* By how much a time.sleep of run may overrun (the host suspends the
\* process).  Under Spec: not at all, or until four paces short of one
\* cooldown after the sleep began.
Oversleep == {0, Cooldown - IntervalTicks - 4 * PaceTicks}

\* Under SpecCooldown, after sleep(300): not at all, or until the next scan
\* of the first of two symbols is exactly one cooldown, or a tick more, after
\* the last one, or 7101 seconds after it
CooldownOversleep ==
    {0, Cooldown - IntervalTicks - 2 * PaceTicks,
        Cooldown - IntervalTicks - 2 * PaceTicks + 1,
        7101 * TicksPerSecond - IntervalTicks - 2 * PaceTicks}

\* ... and after sleep(60): not at all, or until the next scan of the first
\* of two symbols is 100 seconds after the last one
BackoffOversleep ==
    {0, 100 * TicksPerSecond - BackoffTicks - 2 * PaceTicks}

-----------------------------------------------------------------------------
(* The bot: CryptoSignalBot.run and check_signals.                         *)

NoRankCall == [tickers |-> NoTickers, limit |-> 0, done |-> FALSE,
               returned |-> <<>>]
NoDetectCall == [ema |-> <<>>, done |-> FALSE, returned |-> "NONE"]
NoEmaCall == [data |-> <<>>, period |-> 0, done |-> FALSE, returned |-> <<>>]

\* lines 38-59: the state __init__ leaves
BotInit ==
    /\ pc = "start"
    /\ clock = 0
    /\ cycle = 0
    /\ last_signals = [k \in {} |-> 0]
    /\ top_coins = <<>>
    /\ idx = 1
    /\ df = NoFrame
    /\ signals_found = <<>>
    /\ sendIdx = 1
    /\ auth_retry_counter = 0
    /\ last_sleep = 0
    /\ tickers = <<>>
    /\ fetched = <<>>
    /\ attempts = <<>>
    /\ notified = <<>>
    /\ send_failed = FALSE
    /\ auth_retries = 0

\* lines 276-284: the main thread has started the bot thread and serves
MainInit == [serving |-> TRUE, served |-> 0]

\* TIMEFRAME is not set (line 44), and no function is called on its own
Defaults ==
    /\ timeframe = TimeframeSeconds
    /\ main = MainInit
    /\ rank_call = NoRankCall
    /\ detect_call = NoDetectCall
    /\ ema_call = NoEmaCall

Init == BotInit /\ Defaults

\* RunStart sleeping one interval before the first cycle
RunStartAfterInterval ==
    /\ pc = "start"
    /\ \E failed \in BOOLEAN : send_failed' = failed
    /\ auth_retry_counter' = 0
    /\ clock' = clock + IntervalTicks
    /\ last_sleep' = IntervalTicks
    /\ pc' = "rank"
    /\ UNCHANGED <<cycle, last_signals, top_coins, idx, df, signals_found,
                   sendIdx, tickers, fetched, attempts, notified,
                   auth_retries, othervars>>

\* lines 239-244: the start-up message (its failure is swallowed, line 100)
RunStart ==
    /\ pc = "start"
    /\ \E failed \in BOOLEAN : send_failed' = failed
    /\ auth_retry_counter' = 0
    /\ pc' = "rank"
    /\ UNCHANGED <<clock, cycle, last_signals, top_coins, idx, df,
                   signals_found, sendIdx, last_sleep, tickers, fetched,
                   attempts, notified, auth_retries, othervars>>

\* where check_signals goes after its loop (lines 230-235)
AfterLoop(found) == IF found = <<>> THEN "post" ELSE "send"

\* GetTopCoins started by a timer, whether or not a cycle is in flight
GetTopCoinsOnTimer(results, cycles) ==
    /\ pc \in {"rank", "scan", "send"}
    /\ cycle < cycles
    /\ \E res \in results :
          /\ tickers' = <<res>>
          /\ top_coins' = get_top_coins_by_volume(res, TopN)
    /\ cycle' = cycle + 1
    /\ signals_found' = <<>>
    /\ fetched' = <<>>
    /\ idx' = 1
    /\ sendIdx' = 1
    /\ pc' = IF top_coins' = <<>> THEN AfterLoop(<<>>) ELSE "scan"
    /\ UNCHANGED <<clock, last_signals, df, auth_retry_counter, last_sleep,
                   attempts, notified, send_failed, auth_retries, othervars>>

\* lines 195-200: check_signals up to its loop
GetTopCoins(results, cycles) ==
    /\ pc = "rank"
    /\ cycle < cycles
    /\ \E res \in results :
          /\ tickers' = <<res>>
          /\ top_coins' = get_top_coins_by_volume(res, TopN)
    /\ cycle' = cycle + 1
    /\ signals_found' = <<>>
    /\ fetched' = <<>>
    /\ idx' = 1
    /\ sendIdx' = 1
    /\ pc' = IF top_coins' = <<>> THEN AfterLoop(<<>>) ELSE "scan"
    /\ UNCHANGED <<clock, last_signals, df, auth_retry_counter, last_sleep,
                   attempts, notified, send_failed, auth_retries, othervars>>

\* is_new with >= for >
is_new_ge(key, now) ==
    \/ key \notin DOMAIN last_signals
    \/ now - last_signals[key] >= Cooldown

\* is_new without the second disjunct
is_new_first_only(key, now) == key \notin DOMAIN last_signals

\* lines 216-217: whether the signal is new
is_new(key, now) ==
    \/ key \notin DOMAIN last_signals
    \/ now - last_signals[key] > Cooldown

\* record_signal rebinding the dict instead of updating it
record_signal_only(key, now) == [k \in {key} |-> now]

\* line 219: self.last_signals[signal_key] = current_time
record_signal(key, now) ==
    [k \in DOMAIN last_signals \cup {key} |->
        IF k = key THEN now ELSE last_signals[k]]

\* lines 203-227: the body of the loop over top_coins, df being frame
ScanStep(frame) ==
    LET symbol == top_coins[idx]
        signal == detect_crossover(symbol, frame)
        raised == detect_raises(frame)
        found  == ~raised /\ signal # <<>>
        key    == signal_key(signal[1])
        admit  == found /\ is_new(key, clock)
    IN  /\ pc = "scan"
        /\ df' = frame
        /\ fetched' = Append(fetched, [symbol |-> symbol, ok |-> frame.ok])
        /\ attempts' = IF found
                       THEN Append(attempts, [key |-> key, at |-> clock,
                                              cycle |-> cycle,
                                              admitted |-> admit])
                       ELSE attempts
        /\ signals_found' = IF admit THEN Append(signals_found, signal[1])
                            ELSE signals_found
        /\ last_signals' = IF admit THEN record_signal(key, clock)
                           ELSE last_signals
        \* time.sleep(0.5), which the except clause skips
        /\ clock' = IF raised THEN clock ELSE clock + PaceTicks
        /\ idx' = idx + 1
        /\ pc' = IF idx = Len(top_coins) THEN AfterLoop(signals_found')
                 ELSE "scan"
        /\ tickers' = <<>>
        /\ UNCHANGED <<cycle, top_coins, sendIdx, auth_retry_counter,
                       last_sleep, notified, send_failed, auth_retries,
                       othervars>>

\* line 132: the timestamps the exchange gives for the rows fetched now
Stamp(data) == IF data.ok THEN [data EXCEPT !.ts = CandleTime(clock)] ELSE data

\* ScanSymbol with a failed fetch raising out of the loop
ScanSymbolAbort(market) ==
    /\ pc = "scan"
    /\ \E data \in market[top_coins[idx]] :
          IF data.ok THEN ScanStep(Stamp(data))
          ELSE /\ pc' = "handler"
               /\ df' = data
               /\ fetched' = Append(fetched, [symbol |-> top_coins[idx],
                                              ok |-> FALSE])
               /\ tickers' = <<>>
               /\ UNCHANGED <<clock, cycle, last_signals, top_coins, idx,
                              signals_found, sendIdx, auth_retry_counter,
                              last_sleep, attempts, notified, send_failed,
                              auth_retries, othervars>>

\* lines 202-227: one iteration of the loop, fetch_ohlcv_data included
ScanSymbol(market) ==
    /\ pc = "scan"
    /\ \E data \in market[top_coins[idx]] : ScanStep(Stamp(data))

\* SendSignal with a failed requests.post raising out of check_signals
SendSignalRaising ==
    /\ pc = "send"
    /\ LET signal == signals_found[sendIdx] IN
       IF format_raises(signal)
       THEN /\ pc' = "handler"
            /\ UNCHANGED <<sendIdx, notified, send_failed>>
       ELSE \E failed \in BOOLEAN :
            /\ send_failed' = failed
            /\ notified' = Append(notified, [key |-> signal_key(signal),
                                             at |-> clock, cycle |-> cycle,
                                             timestamp |-> signal.timestamp])
            /\ sendIdx' = sendIdx + 1
            /\ pc' = IF failed THEN "handler"
                     ELSE IF sendIdx = Len(signals_found) THEN "post"
                     ELSE "send"
    /\ UNCHANGED <<clock, cycle, last_signals, top_coins, idx, df,
                   signals_found, auth_retry_counter, last_sleep, tickers,
                   fetched, attempts, auth_retries, othervars>>

\* lines 231-233: format and send one accepted signal
SendSignal ==
    /\ pc = "send"
    /\ LET signal == signals_found[sendIdx] IN
       IF format_raises(signal)
       THEN /\ pc' = "handler"
            /\ UNCHANGED <<sendIdx, notified, send_failed>>
       ELSE /\ \E failed \in BOOLEAN : send_failed' = failed
            /\ notified' = Append(notified, [key |-> signal_key(signal),
                                             at |-> clock, cycle |-> cycle,
                                             timestamp |-> signal.timestamp])
            /\ sendIdx' = sendIdx + 1
            /\ pc' = IF sendIdx = Len(signals_found) THEN "post" ELSE "send"
    /\ UNCHANGED <<clock, cycle, last_signals, top_coins, idx, df,
                   signals_found, auth_retry_counter, last_sleep, tickers,
                   fetched, attempts, auth_retries, othervars>>

\* lines 251-259: the rest of the try block of run.  When the counter
\* reaches the interval, retry_delta_authentication (lines 81-84) runs
\* setup_delta_exchange, which catches every exception and reports by
\* send_telegram_message, or sends nothing when there are no credentials.
EndCycle(oversleep) ==
    LET due == auth_retry_counter + 1 >= AuthRetryInterval IN
    /\ pc = "post"
    /\ auth_retry_counter' = IF due THEN 0 ELSE auth_retry_counter + 1
    /\ auth_retries' = IF due THEN auth_retries + 1 ELSE auth_retries
    /\ IF due THEN \E failed \in BOOLEAN : send_failed' \in {send_failed, failed}
       ELSE send_failed' = send_failed
    /\ \E over \in oversleep : clock' = clock + IntervalTicks + over
    /\ last_sleep' = IntervalTicks
    /\ pc' = "rank"
    /\ tickers' = <<>>
    /\ UNCHANGED <<cycle, last_signals, top_coins, idx, df, signals_found,
                   sendIdx, fetched, attempts, notified, othervars>>

\* HandleError letting a failed error notification end the loop
HandleErrorStop(oversleep) ==
    /\ pc = "handler"
    /\ \E failed \in BOOLEAN :
          /\ send_failed' = failed
          /\ pc' = IF failed THEN "stopped" ELSE "rank"
    /\ \E over \in oversleep : clock' = clock + BackoffTicks + over
    /\ last_sleep' = BackoffTicks
    /\ UNCHANGED <<cycle, last_signals, top_coins, idx, df, signals_found,
                   sendIdx, auth_retry_counter, tickers, fetched, attempts,
                   notified, auth_retries, othervars>>

\* lines 265-268: except Exception
HandleError(oversleep) ==
    /\ pc = "handler"
    /\ \E failed \in BOOLEAN : send_failed' = failed
    /\ \E over \in oversleep : clock' = clock + BackoffTicks + over
    /\ last_sleep' = BackoffTicks
    /\ pc' = "rank"
    /\ UNCHANGED <<cycle, last_signals, top_coins, idx, df, signals_found,
                   sendIdx, auth_retry_counter, tickers, fetched, attempts,
                   notified, auth_retries, othervars>>

Next ==
    \/ RunStart
    \/ GetTopCoins(TickerResults, MaxCycles)
    \/ ScanSymbol(FullMarket)
    \/ SendSignal
    \/ EndCycle(Oversleep)
    \/ HandleError(Oversleep)

Spec == Init /\ [][Next]_vars

\* The bot where only BTC/USDT moves and the ticker fetch succeeds, for more
\* cycles.
NextCooldown ==
    \/ RunStart
    \/ GetTopCoins({GoodTickers}, MaxCooldownCycles)
    \/ ScanSymbol(CalmMarket)
    \/ SendSignal
    \/ EndCycle(CooldownOversleep)
    \/ HandleError(BackoffOversleep)

SpecCooldown == Init /\ [][NextCooldown]_vars

\* The same with TIMEFRAME (line 44) left at '1h' or set to '4h'
Timeframes == {TimeframeSeconds, 4 * TimeframeSeconds}

InitTimeframe ==
    /\ BotInit
    /\ timeframe \in Timeframes
    /\ main = MainInit
    /\ rank_call = NoRankCall
    /\ detect_call = NoDetectCall
    /\ ema_call = NoEmaCall

SpecTimeframe == InitTimeframe /\ [][NextCooldown]_vars

-----------------------------------------------------------------------------
(* The process: the bot in its daemon thread and, in the main thread, the  *)
(* Flask server (lines 275-284).                                           *)

\* lines 19-34: one request to '/', '/health' or '/status' is answered
HttpRequest ==
    /\ main.serving
    /\ main.served < MaxRequests
    /\ main' = [main EXCEPT !.served = main.served + 1]
    /\ UNCHANGED <<botvars, timeframe, rank_call, detect_call, ema_call>>

\* line 284: app.run ends (the process is told to stop) and the main thread
\* exits; the bot thread is a daemon thread (line 278), which the
\* interpreter abandons where it stands
Shutdown ==
    /\ main.serving
    /\ main' = [main EXCEPT !.serving = FALSE]
    /\ pc' = "killed"
    /\ UNCHANGED <<clock, cycle, last_signals, top_coins, idx, df,
                   signals_found, sendIdx, auth_retry_counter, last_sleep,
                   tickers, fetched, attempts, notified, send_failed,
                   auth_retries, timeframe, rank_call, detect_call, ema_call>>

\* the sleeps of run return on time
Punctual == {0}

NextShutdown ==
    \/ RunStart
    \/ GetTopCoins({GoodTickers}, MaxShutdownCycles)
    \/ ScanSymbol(CalmMarket)
    \/ SendSignal
    \/ EndCycle(Punctual)
    \/ HandleError(Punctual)
    \/ HttpRequest
    \/ Shutdown

SpecShutdown == Init /\ [][NextShutdown]_vars

\* The bot alone, punctual, with progress: the thread is scheduled,
\* time.sleep returns, and every network call returns or times out
\* (requests.post has timeout=10), so a step that can be taken is taken.
NextLive ==
    \/ RunStart
    \/ GetTopCoins({GoodTickers}, MaxLiveCycles)
    \/ ScanSymbol(CalmMarket)
    \/ SendSignal
    \/ EndCycle(Punctual)
    \/ HandleError(Punctual)

SpecLive == Init /\ [][NextLive]_vars /\ WF_vars(NextLive)

-----------------------------------------------------------------------------
(* The bot for as many cycles as the re-authentication takes to come due   *)
(* (lines 242-255), and one more.                                          *)

\* a market in which nothing moves
QuietMarket == [s \in Symbols |-> {Flat}]

\* quiet at first, then only BTC/USDT moves
AuthMarket ==
    IF cycle > AuthRetryInterval - MaxAuthCycles THEN CalmMarket
    ELSE QuietMarket

NextAuth ==
    \/ RunStart
    \/ GetTopCoins({GoodTickers}, AuthRetryInterval + 1)
    \/ ScanSymbol(AuthMarket)
    \/ SendSignal
    \/ EndCycle(Punctual)
    \/ HandleError(Punctual)

SpecAuth == Init /\ [][NextAuth]_vars

-----------------------------------------------------------------------------
(* get_top_coins_by_volume on its own, over every small ticker snapshot.   *)

RankSymbols == {"A/USDT", "B/USDT", "C/EUR", "D/USDT"}
RankVolumes == {Vol(0), Vol(100), Vol(500), Vol(9999),
                NoVol("absent"), NoVol("str")}

\* the orders in which n different keys can stand in a dict
KeyOrders(n) ==
    {keys \in [1..n -> RankSymbols] :
        \A i, j \in 1..n : i # j => keys[i] # keys[j]}

\* the dict fetch_tickers returns, with these keys and these quoteVolumes
Snapshot(keys, vols) ==
    [ok |-> TRUE, items |-> [i \in 1..Len(keys) |-> Item(keys[i], vols[i])]]

InitRanker ==
    /\ BotInit
    /\ timeframe = TimeframeSeconds
    /\ main = MainInit
    /\ detect_call = NoDetectCall
    /\ ema_call = NoEmaCall
    /\ \E limit \in 1..MaxLimit :
          \/ rank_call = [tickers |-> NoTickers, limit |-> limit,
                          done |-> FALSE, returned |-> <<>>]
          \/ \E n \in 0..MaxTickers :
                \E keys \in KeyOrders(n), vols \in [1..n -> RankVolumes] :
                   rank_call = [tickers |-> Snapshot(keys, vols),
                                limit |-> limit, done |-> FALSE,
                                returned |-> <<>>]

\* lines 103-121
RankerCall ==
    /\ ~rank_call.done
    /\ rank_call' = [rank_call EXCEPT
                        !.done = TRUE,
                        !.returned = get_top_coins_by_volume(rank_call.tickers,
                                                             rank_call.limit)]
    /\ UNCHANGED <<botvars, timeframe, main, detect_call, ema_call>>

SpecRanker == InitRanker /\ [][RankerCall]_vars

-----------------------------------------------------------------------------
(* Lines 147-175 of detect_crossover on their own, over every pair of EMA  *)
(* columns whose last three values are small rationals.                    *)

EmaValues == {Rat(n, d) : n \in 0..MaxEma, d \in {1, 2}}

\* a column of MinSamples rows: c, ..., c, a, b
EmaColumn(c, a, b) ==
    [i \in 1..MinSamples |->
        IF i = MinSamples THEN b ELSE IF i = MinSamples - 1 THEN a ELSE c]

InitDetector ==
    /\ BotInit
    /\ timeframe = TimeframeSeconds
    /\ main = MainInit
    /\ rank_call = NoRankCall
    /\ ema_call = NoEmaCall
    /\ \E c10, a10, b10, c20, a20, b20 \in EmaValues :
          detect_call = [ema |-> << EmaColumn(c10, a10, b10),
                                    EmaColumn(c20, a20, b20) >>,
                         done |-> FALSE, returned |-> "NONE"]

DetectorCall ==
    /\ ~detect_call.done
    /\ LET signal == crossover_signal("BTC/USDT", Flat, detect_call.ema[1],
                                      detect_call.ema[2])
       IN  detect_call' = [detect_call EXCEPT
                              !.done = TRUE,
                              !.returned = IF signal = <<>> THEN "NONE"
                                           ELSE signal[1].type]
    /\ UNCHANGED <<botvars, timeframe, main, rank_call, ema_call>>

SpecDetector == InitDetector /\ [][DetectorCall]_vars

-----------------------------------------------------------------------------
(* calculate_ema on its own, over every short column of small closes.      *)

CloseColumns == UNION {[1..n -> 0..MaxClose] : n \in 0..MaxSeries}

InitEma ==
    /\ BotInit
    /\ timeframe = TimeframeSeconds
    /\ main = MainInit
    /\ rank_call = NoRankCall
    /\ detect_call = NoDetectCall
    /\ \E data \in CloseColumns, period \in 1..MaxPeriod :
          ema_call = [data |-> data, period |-> period, done |-> FALSE,
                      returned |-> <<>>]

\* lines 123-125
EmaCall ==
    /\ ~ema_call.done
    /\ ema_call' = [ema_call EXCEPT
                       !.done = TRUE,
                       !.returned = calculate_ema(ema_call.data,
                                                  ema_call.period)]
    /\ UNCHANGED <<botvars, timeframe, main, rank_call, detect_call>>

SpecEma == InitEma /\ [][EmaCall]_vars

-----------------------------------------------------------------------------
(* The claims about the scan cycle and the scheduler.                      *)

SameKey(log, i, j) == i < j /\ log[i].key = log[j].key

C2_DedupFrame ==
    [][ IF pc = "scan" /\ Len(signals_found') = Len(signals_found) + 1
        THEN LET key == signal_key(signals_found'[Len(signals_found')])
             IN  /\ DOMAIN last_signals' = DOMAIN last_signals \cup {key}
                 /\ last_signals'[key] = clock
                 /\ \A k \in DOMAIN last_signals \ {key} :
                       last_signals'[k] = last_signals[k]
        ELSE last_signals' = last_signals ]_vars

\* C2's case: an admission has overwritten the entry of its key while
\* another key keeps an older entry
C2_Witness ==
    \E i, j \in 1..Len(attempts) :
        /\ SameKey(attempts, i, j)
        /\ attempts[i].admitted /\ attempts[j].admitted
        /\ last_signals[attempts[j].key] = attempts[j].at
        /\ \E k \in DOMAIN last_signals :
              k # attempts[j].key /\ last_signals[k] < attempts[j].at

\* the admissions of attempt j's key before attempt j
AdmittedBefore(j) ==
    {i \in 1..(j - 1) : attempts[i].key = attempts[j].key /\ attempts[i].admitted}

Latest(S) == CHOOSE i \in S : \A k \in S : k <= i

\* C3: a crossover is admitted if and only if its key was never admitted or
\* more than 7200 seconds have passed since its last admission; attempts
\* that were suppressed in between do not count.
C3_CooldownReadmission ==
    \A j \in 1..Len(attempts) :
        attempts[j].admitted <=>
            \/ AdmittedBefore(j) = {}
            \/ attempts[j].at - attempts[Latest(AdmittedBefore(j))].at > Cooldown

\* C3's case: a key admitted at t0, suppressed at t0 + 100 s, admitted again
\* at t0 + 7201 s
C3_Witness ==
    \E i, j, l \in 1..Len(attempts) :
        /\ SameKey(attempts, i, j) /\ SameKey(attempts, j, l)
        /\ AdmittedBefore(i) = {} /\ attempts[i].admitted
        /\ attempts[j].at = attempts[i].at + 100 * TicksPerSecond
        /\ ~attempts[j].admitted
        /\ attempts[l].at = attempts[i].at + 7201 * TicksPerSecond
        /\ attempts[l].admitted

\* C4: an exception raised in a cycle takes run to its except clause; from
\* there, whether or not the error notification is delivered, run sleeps 60
\* seconds (not 300) and goes on to the next call of check_signals, which
\* starts the next cycle; run has no other place to be.
C4_BackoffThenNextCycle ==
    /\ [](pc \in {"start", "rank", "scan", "send", "post", "handler"})
    /\ [][ /\ pc = "send" /\ format_raises(signals_found[sendIdx])
                => pc' = "handler"
           /\ pc = "handler"
                => /\ pc' = "rank"
                   /\ last_sleep' = BackoffTicks
                   /\ last_sleep' < IntervalTicks
                   /\ clock' >= clock + BackoffTicks
                   /\ cycle' = cycle
           /\ pc = "rank"
                => pc' \in {"scan", "post"} /\ cycle' = cycle + 1 ]_vars

\* C4's case: the cycle after one that raised is running, the error
\* notification having failed
C4_Witness ==
    /\ pc = "scan"
    /\ cycle = 2
    /\ last_sleep = BackoffTicks
    /\ send_failed

\* C5: every symbol of top_coins is fetched, in order, whatever the earlier
\* fetches returned; a failed fetch changes neither signals_found nor
\* last_signals and the loop goes on to the next symbol, or to the end of
\* the cycle after the last.
C5_FetchFailureSkips ==
    /\ [](/\ Len(fetched) = idx - 1
          /\ idx <= Len(top_coins) + 1
          /\ \A i \in 1..Len(fetched) : fetched[i].symbol = top_coins[i]
          /\ pc \in {"send", "post", "handler"} => Len(fetched) = Len(top_coins))
    /\ [][ pc = "scan" /\ ~df'.ok
             => /\ signals_found' = signals_found
                /\ last_signals' = last_signals
                /\ idx' = idx + 1
                /\ pc' = IF idx < Len(top_coins) THEN "scan"
                         ELSE IF signals_found = <<>> THEN "post" ELSE "send" ]_vars

\* C5's case: a cycle has completed in which a fetch failed and a later
\* symbol's crossover was accepted and sent
C5_Witness ==
    /\ pc = "post"
    /\ \E i, j \in 1..Len(fetched) :
          /\ i < j
          /\ ~fetched[i].ok
          /\ \E n \in 1..Len(notified) :
                /\ notified[n].cycle = cycle
                /\ notified[n].key[1] = fetched[j].symbol

\* C10: when the fetch returned nothing, or fewer than slowPeriod + 5 rows,
\* the iteration neither raises (it reaches its pacing sleep and the loop
\* goes on) nor puts a crossover to the duplicate check, and signals_found
\* and last_signals are unchanged.
C10_TooFewSamples ==
    [][ pc = "scan" /\ (~df'.ok \/ Len(df'.closes) < SlowPeriod + 5)
          => /\ signals_found' = signals_found
             /\ last_signals' = last_signals
             /\ attempts' = attempts
             /\ clock' = clock + PaceTicks
             /\ pc' # "handler" ]_vars

\* C10's case: a frame one row short, whose last two rows cross, was scanned
C10_Witness ==
    /\ df.ok
    /\ Len(df.closes) = SlowPeriod + 4
    /\ df.closes[Len(df.closes)] > df.closes[Len(df.closes) - 1]
    /\ fetched # <<>>
    /\ attempts = <<>>

-----------------------------------------------------------------------------
(* The claims about the Ranker and the Detector.                           *)

\* The Ranker as the specification describes it (section 4.4): the entries
\* that match the quote filter and have a numeric volume above 0, by
\* descending volume, the first `limit` of them.
SpecEligible(it) ==
    /\ it.symbol \in SlashUSDT \ ColonUSDT
    /\ it.quoteVolume.tag = "num"
    /\ it.quoteVolume.num > 0

SpecRank(items, limit) ==
    LET ranked == SortedDesc(SelectSeq(items, SpecEligible))
    IN  [i \in 1..Min(limit, Len(ranked)) |-> ranked[i].symbol]

\* C6, as claimed: the scanned list is the fallback list when the ticker
\* fetch failed, and the Ranker's result over the snapshot when it did not.
C6_RankedUnlessFetchFails ==
    tickers # <<>> =>
        top_coins = IF tickers[1].ok THEN SpecRank(tickers[1].items, TopN)
                    ELSE FallbackCoins

\* C7, as claimed: the Ranker returns the entries that match the quote
\* filter and have a numeric volume above 0, ranked; [B, A] for the snapshot
\* A=100, B=500, C/EUR=9999, D="bad" and limit 2.
C7_RankerExcludes ==
    rank_call.done /\ rank_call.tickers.ok =>
        rank_call.returned = SpecRank(rank_call.tickers.items, rank_call.limit)

\* a ticker snapshot all of whose volumes are numbers
AllNumeric(items) ==
    \A i \in 1..Len(items) : items[i].quoteVolume.tag = "num"

\* the position in items of symbol, and its volume
PositionOf(items, symbol) ==
    CHOOSE i \in 1..Len(items) : items[i].symbol = symbol
VolumeOf(items, symbol) == items[PositionOf(items, symbol)].quoteVolume.num

\* the symbols that pass the quote filter
Matching(items) ==
    {items[i].symbol : i \in {j \in 1..Len(items) :
                                items[j].symbol \in SlashUSDT \ ColonUSDT}}

Returned(out) == {out[i] : i \in 1..Len(out)}

\* C8: for a snapshot with numeric volumes the Ranker returns at most limit
\* symbols (all that match the filter when there are no more than limit),
\* each one matching the filter, none twice, by non-increasing volume,
\* equal volumes in the snapshot's order; no matching symbol left out has a
\* larger volume than one returned.
C8_RankedByVolume ==
    LET items == rank_call.tickers.items
        out   == rank_call.returned
    IN  rank_call.done /\ rank_call.tickers.ok /\ AllNumeric(items) =>
          /\ Len(out) = Min(rank_call.limit, Cardinality(Matching(items)))
          /\ Returned(out) \subseteq Matching(items)
          /\ \A i, j \in 1..Len(out) :
                i < j => /\ out[i] # out[j]
                         /\ VolumeOf(items, out[i]) >= VolumeOf(items, out[j])
                         /\ VolumeOf(items, out[i]) = VolumeOf(items, out[j])
                              => PositionOf(items, out[i]) < PositionOf(items, out[j])
          /\ \A left \in Matching(items) \ Returned(out) :
                \A i \in 1..Len(out) :
                    VolumeOf(items, left) <= VolumeOf(items, out[i])

\* C8's case: a snapshot with numeric volumes, more matching symbols than
\* the limit, two of the returned ones with equal volumes, and an entry of
\* another quote currency with a larger volume than any returned
C8_Witness ==
    LET items == rank_call.tickers.items
        out   == rank_call.returned
    IN  /\ rank_call.done /\ rank_call.tickers.ok /\ AllNumeric(items)
        /\ Cardinality(Matching(items)) > rank_call.limit
        /\ \E i, j \in 1..Len(out) :
              i < j /\ VolumeOf(items, out[i]) = VolumeOf(items, out[j])
        /\ \E i \in 1..Len(items) :
              /\ items[i].symbol \notin Matching(items)
              /\ \A j \in 1..Len(out) :
                    items[i].quoteVolume.num > VolumeOf(items, out[j])

\* C9: with fast and slow the EMA columns and n their last row, the
\* Detector returns a bullish signal iff fast[n-1] <= slow[n-1] and
\* fast[n] > slow[n], a bearish one iff fast[n-1] >= slow[n-1] and
\* fast[n] < slow[n], and None otherwise; None when fast[n] = slow[n].
C9_CrossoverRule ==
    LET n    == MinSamples
        fast == detect_call.ema[1]
        slow == detect_call.ema[2]
        \* x - y, times the denominators
        Diff(x, y) == x[1] * y[2] - y[1] * x[2]
        prev == Diff(fast[n - 1], slow[n - 1])
        cur  == Diff(fast[n], slow[n])
    IN  detect_call.done =>
          /\ detect_call.returned = "BULLISH" <=> (prev <= 0 /\ cur > 0)
          /\ detect_call.returned = "BEARISH" <=> (prev >= 0 /\ cur < 0)
          /\ detect_call.returned \in {"BULLISH", "BEARISH", "NONE"}
          /\ cur = 0 => detect_call.returned = "NONE"

\* C9's case: the columns were equal on the previous row and the fast one
\* is above on the last row, with earlier rows that say otherwise
C9_Witness ==
    LET n    == MinSamples
        fast == detect_call.ema[1]
        slow == detect_call.ema[2]
    IN  /\ detect_call.done
        /\ detect_call.returned = "BULLISH"
        /\ fast[n - 1] = slow[n - 1]
        /\ RatGt(fast[n - 2], slow[n - 2])

-----------------------------------------------------------------------------
(* The claims about the hand-over to the notifier.                         *)

\* the keys of the signals handed to the notifier in cycle c, in order
NotifiedKeys(c) ==
    LET sent == SelectSeq(notified, LAMBDA n : n.cycle = c)
    IN  [i \in 1..Len(sent) |-> sent[i].key]

\* the position of symbol in top_coins
ScanPosition(symbol) == CHOOSE i \in 1..Len(top_coins) : top_coins[i] = symbol

\* C11, as claimed: once a cycle is over, the signals it accepted are in
\* the order in which their symbols were scanned, and the signals handed
\* to the notifier in that cycle are exactly those, in that order, each
\* once.
C11_HandedOverInOrderOnce ==
    cycle >= 1 /\ pc \in {"post", "handler", "rank"} =>
        /\ \A i, j \in 1..Len(signals_found) :
              i < j => ScanPosition(signals_found[i].symbol)
                           < ScanPosition(signals_found[j].symbol)
        /\ NotifiedKeys(cycle)
              = [i \in 1..Len(signals_found) |-> signal_key(signals_found[i])]

\* C17, as claimed: once a cycle is over, every crossover it admitted
\* (and recorded in last_signals) has been handed to the notifier in that
\* cycle.
C17_AdmittedAreHandedOver ==
    \A a \in 1..Len(attempts) :
        /\ attempts[a].admitted
        /\ attempts[a].cycle < cycle \/ pc \in {"post", "handler", "rank"}
        => \E n \in 1..Len(notified) :
              /\ notified[n].key = attempts[a].key
              /\ notified[n].cycle = attempts[a].cycle

\* C18, as claimed: no two signals handed to the notifier have the same
\* symbol, the same direction and the same candle timestamp.
C18_SameCandleOnce ==
    \A i, j \in 1..Len(notified) :
        SameKey(notified, i, j) => notified[i].timestamp # notified[j].timestamp

\* C12: a send_telegram_message call of the send loop whose requests.post
\* fails leaves last_signals and signals_found as they were, is counted as
\* the hand-over of its signal, and is followed by the next signal of the
\* list, or by the end of the cycle after the last: the same signal is not
\* sent again and run's except clause is not entered.
C12_SendFailureNonFatal ==
    [][ pc = "send" /\ ~format_raises(signals_found[sendIdx]) /\ send_failed'
          => /\ last_signals' = last_signals
             /\ signals_found' = signals_found
             /\ Len(notified') = Len(notified) + 1
             /\ notified'[Len(notified')].key
                    = signal_key(signals_found[sendIdx])
             /\ sendIdx' = sendIdx + 1
             /\ pc' = IF sendIdx < Len(signals_found) THEN "send" ELSE "post" ]_vars

\* C12's case: the first of two accepted signals was handed over, its send
\* failed, and the second is about to be sent
C12_Witness ==
    /\ pc = "send"
    /\ sendIdx = 2
    /\ send_failed
    /\ Len(NotifiedKeys(cycle)) = 1
    /\ last_signals[signal_key(signals_found[1])] < clock

-----------------------------------------------------------------------------
(* The claims about the scheduler and the process.                         *)

\* C13, as claimed: when the bot has been stopped, the cycle that was in
\* flight when the request came has scanned all its symbols and has sent
\* all the signals it accepted (up to one whose formatting raised).
C13_StopsBetweenCycles ==
    ~main.serving /\ cycle >= 1 =>
        /\ Len(fetched) = Len(top_coins)
        /\ \/ Len(NotifiedKeys(cycle)) = Len(signals_found)
           \/ \E i \in 1..Len(signals_found) : format_raises(signals_found[i])

\* C14: a call of check_signals begins only from run's loop head, after the
\* previous call has scanned all its symbols; run comes back to the loop
\* head only from the end of a cycle, 300 seconds or more later, or from its
\* except clause, 60 seconds or more later; last_signals changes only in a
\* step of the scan loop; a step of the main thread changes nothing of the
\* bot but, on exit, its position.
C14_OneCycleAtATime ==
    [][ /\ cycle' # cycle
            => /\ pc = "rank" /\ pc' \in {"scan", "post"}
               /\ cycle' = cycle + 1
               /\ cycle >= 1 => Len(fetched) = Len(top_coins)
        /\ pc' = "rank" /\ pc # "rank"
            => \/ pc = "start"
               \/ pc = "post" /\ clock' >= clock + IntervalTicks
               \/ pc = "handler" /\ clock' >= clock + BackoffTicks
        /\ last_signals' # last_signals => pc = "scan" /\ pc' # "killed"
        /\ main' # main
            => UNCHANGED <<clock, cycle, last_signals, top_coins, idx, df,
                           signals_found, sendIdx, auth_retry_counter,
                           last_sleep, tickers, fetched, attempts, notified,
                           send_failed, auth_retries>> ]_vars

\* C14's case: the second cycle is in flight, a signal of the first is in
\* last_signals, and the main thread has answered a request meanwhile
C14_Witness ==
    /\ pc = "scan"
    /\ cycle = 2
    /\ idx = 2
    /\ DOMAIN last_signals # {}
    /\ main.served >= 1

\* C15: run is either between cycles (at its loop head) or in a cycle; the
\* first cycle begins at start-up with no sleep before it; a cycle in
\* flight always comes back to the loop head, through the end of the try
\* block or through the except clause; from the loop head the next cycle
\* always begins (up to the number of cycles of the model); run has no
\* other place to be.
C15_IdleRunning ==
    /\ [](pc \in {"start", "rank", "scan", "send", "post", "handler"})
    /\ [][cycle = 0 /\ cycle' = 1 => clock = 0 /\ last_sleep = 0]_vars
    /\ (pc \in {"scan", "send", "post", "handler"}) ~> (pc = "rank")
    /\ \A k \in 0..(MaxLiveCycles - 1) :
          (pc \in {"start", "rank"} /\ cycle = k) ~> (cycle = k + 1)

\* C15's case: run is back at its loop head after a cycle that ended in the
\* except clause, which followed one that ended normally
C15_Witness ==
    /\ pc = "rank"
    /\ cycle = 2
    /\ last_sleep = BackoffTicks
    /\ auth_retry_counter = 1

-----------------------------------------------------------------------------
(* The claim about the EMA Calculator.                                     *)

\* C16: for a non-empty column and a period p, calculate_ema returns a
\* column of the same length, whose first value is the first close and
\* whose value at each later row i is
\*     (2 * closes[i] + (p - 1) * ema[i-1]) / (p + 1),
\* that is closes[i]*a + ema[i-1]*(1-a) with a = 2/(p+1).
C16_EmaRecurrence ==
    LET data == ema_call.data
        ema  == ema_call.returned
        p    == ema_call.period
    IN  ema_call.done /\ data # <<>> =>
          /\ Len(ema) = Len(data)
          /\ ema[1][1] = data[1] * ema[1][2]
          /\ \A i \in 2..Len(data) :
                /\ ema[i][2] > 0
                /\ ema[i][1] * (p + 1) * ema[i - 1][2]
                     = ema[i][2] * (2 * data[i] * ema[i - 1][2]
                                       + (p - 1) * ema[i - 1][1])

\* C16's case: a column that rises and then falls, with a period above 1,
\* whose last average is not a whole number
C16_Witness ==
    LET data == ema_call.data
        ema  == ema_call.returned
    IN  /\ ema_call.done
        /\ Len(data) = MaxSeries
        /\ ema_call.period > 1
        /\ data[1] < data[2] /\ data[3] < data[2]
        /\ ema[Len(ema)][2] > 1

\* C19, as claimed: the counter stays within 0..287, and whenever run is
\* at its loop head retry_delta_authentication has been called once for
\* every 288 iterations made so far, whether they ended normally or in the
\* except clause.
C19_ReauthEvery288 ==
    /\ auth_retry_counter \in 0..(AuthRetryInterval - 1)
    /\ pc = "rank" => auth_retries = cycle \div AuthRetryInterval

====
